---- MODULE Spec2Model ----
(***************************************************************************)
(* Decoding strategies and the text generation loop of decoding.ipynb.     *)
(*                                                                         *)
(* A probability tensor is modelled exactly, as a record [w, d]: entry i   *)
(* has the value w[i] / d.  d = 0 stands for a tensor of NaN (the result   *)
(* of 0/0).  A threshold p is the rational pn / PDen.                      *)
(***************************************************************************)
EXTENDS Integers, Sequences, FiniteSets, TLC

\* ------------------------------------------------------------------ bounds
V == 3              \* vocabulary size (tokens are 0 .. V-1)
Den == 6            \* input probabilities are multiples of 1/Den
PDen == 4           \* thresholds p are multiples of 1/PDen
MaxK == 4           \* largest k a strategy is constructed with
MaxSteps == 3       \* largest max_steps passed to generate
MaxPromptLen == 2   \* longest encoded prompt
MaxInputLength == 3 \* largest model.config.max_position_embeddings

Tokens == 0 .. (V - 1)

\* tokenizer.eos_token_id: GPT2's end-of-text token is the last vocabulary entry
eos_idx == V - 1

\* ------------------------------------------------------- tensor arithmetic
\* probs.sum(), as a numerator over probs.d
TensorSum(probs) ==
    LET partial[n \in Tokens] == probs.w[n] + (IF n = 0 THEN 0 ELSE partial[n - 1])
    IN  partial[V - 1]

IsNaN(probs) == probs.d = 0

NaNTensor == [w |-> [i \in Tokens |-> 0], d |-> 0]

\* entries with non-zero probability: the candidates of a weighted draw
Support(probs) == {i \in Tokens : probs.w[i] > 0}

\* A tensor the softmax can produce for a non-zero temperature: non-negative
\* entries (an entry may underflow to 0) that sum to 1.
Dists == {pr \in [w : [Tokens -> 0 .. Den], d : {Den}] : TensorSum(pr) = Den}

\* the orders of the vocabulary: position (1-based) to index
Orders == {s \in [1 .. V -> Tokens] : \A i, j \in 1 .. V : i # j => s[i] # s[j]}

\* torch.sort(probs, descending=True): the sort is not stable, so any order
\* of equal entries can come out.
SortedIndices(probs) ==
    {s \in Orders : \A j \in 1 .. (V - 1) : probs.w[s[j]] >= probs.w[s[j + 1]]}

\* positions (1-based) selected by the Python slice seq[k:] of a length-V tensor
SliceFrom(k) ==
    LET start == IF k < 0 THEN (IF V + k < 0 THEN 0 ELSE V + k)
                          ELSE (IF k > V THEN V ELSE k)
    IN  (start + 1) .. V

\* mutant of ZeroNonTopK: the slice starts one position early
ZeroNonTopK_OneEarly(probs, sorted_indices, k) ==
    [probs EXCEPT !.w = [i \in Tokens |->
        IF i \in {sorted_indices[j] : j \in SliceFrom(k - 1)} THEN 0 ELSE probs.w[i]]]

\* mutant of ZeroNonTopK: the slice starts one position late
ZeroNonTopK_OffByOne(probs, sorted_indices, k) ==
    [probs EXCEPT !.w = [i \in Tokens |->
        IF i \in {sorted_indices[j] : j \in SliceFrom(k + 1)} THEN 0 ELSE probs.w[i]]]

\* probs[sorted_indices[k:]] = 0.0
ZeroNonTopK(probs, sorted_indices, k) ==
    [probs EXCEPT !.w = [i \in Tokens |->
        IF i \in {sorted_indices[j] : j \in SliceFrom(k)} THEN 0 ELSE probs.w[i]]]

\* probs / probs.sum(): (w[i]/d) / (sum/d) = w[i]/sum; 0/0 and NaN give NaN
Renormalize(probs) ==
    IF IsNaN(probs) \/ TensorSum(probs) = 0
    THEN NaNTensor
    ELSE [w |-> probs.w, d |-> TensorSum(probs)]

\* torch.cumsum(sorted_probs, dim=-1), as numerators over probs.d
cumulative_probs(probs, sorted_indices) ==
    LET cum[j \in 1 .. V] ==
            probs.w[sorted_indices[j]] + (IF j = 1 THEN 0 ELSE cum[j - 1])
    IN  cum

\* mutant of idx_to_suppress: the first entry is not exempted
idx_to_suppress_NoKeepFirst(probs, sorted_indices, pn) ==
    [j \in 1 .. V |->
        /\ ~IsNaN(probs)
        /\ cumulative_probs(probs, sorted_indices)[j] * PDen > pn * probs.d]

\* idx_to_suppress = cumulative_probs > p ; idx_to_suppress[0] = False
\* (a comparison with NaN is False)
idx_to_suppress(probs, sorted_indices, pn) ==
    [j \in 1 .. V |->
        /\ j # 1
        /\ ~IsNaN(probs)
        /\ cumulative_probs(probs, sorted_indices)[j] * PDen > pn * probs.d]

\* probs[sorted_indices[idx_to_suppress == True]] = 0.0
ZeroNonTopP(probs, sorted_indices, pn) ==
    [probs EXCEPT !.w = [i \in Tokens |->
        IF \E j \in 1 .. V : /\ sorted_indices[j] = i
                             /\ idx_to_suppress(probs, sorted_indices, pn)[j]
        THEN 0 ELSE probs.w[i]]]

\* probs.multinomial(num_samples=1): raises on NaN or on a zero sum,
\* otherwise returns an index of non-zero probability
MultinomialRaises(probs) == IsNaN(probs) \/ TensorSum(probs) = 0

Multinomial(probs) == IF MultinomialRaises(probs) THEN {} ELSE Support(probs)

\* probs.argmax(): the first index of the maximal value; on a NaN tensor the
\* index returned is implementation-defined
Argmax(probs) ==
    IF IsNaN(probs) THEN Tokens
    ELSE {i \in Tokens : /\ \A j \in Tokens : probs.w[j] <= probs.w[i]
                         /\ \A j \in Tokens : j < i => probs.w[j] < probs.w[i]}

\* ------------------------------------------------------ decoding strategies
\* A strategy instance as left by its __init__: the class and the stored
\* configuration (k and p = pn / PDen; unused fields are 0).  No __init__
\* validates its argument.
GreedyDecoding == [kind |-> "Greedy", k |-> 0, pn |-> 0]

RandomDecoding == [kind |-> "Random", k |-> 0, pn |-> 0]

TopKDecoding(k) == [kind |-> "TopK", k |-> k, pn |-> 0]

TopPDecoding(pn) == [kind |-> "TopP", k |-> 0, pn |-> pn]

TopKTopPDecoding(k, pn) == [kind |-> "TopKTopP", k |-> k, pn |-> pn]

KValues == 0 .. MaxK

PValues == 0 .. (PDen + 1)

Strategies ==
    {GreedyDecoding, RandomDecoding}
        \cup {TopKDecoding(k) : k \in KValues}
        \cup {TopPDecoding(pn) : pn \in PValues}
        \cup {TopKTopPDecoding(k, pn) : k \in KValues, pn \in PValues}

IdentityOrder == [j \in 1 .. V |-> j - 1]

\* The values one call of sample goes through.  Stages a strategy does not
\* have keep the tensor they were given.
\*   sorted_k, zeroed_k, probs_k : the top-k stage (sort, zeroing, division)
\*   sorted_p, zeroed_p, probs   : the top-p stage; probs is handed to the draw
\*   raised, token_idx           : the draw raised / the index returned
NoRun ==
    [sorted_k |-> IdentityOrder, zeroed_k |-> NaNTensor, probs_k |-> NaNTensor,
     sorted_p |-> IdentityOrder, zeroed_p |-> NaNTensor, probs |-> NaNTensor,
     raised |-> FALSE, token_idx |-> -1]

\* token_idx = probs.multinomial(num_samples=1)
Draw(run) ==
    IF MultinomialRaises(run.probs)
    THEN {[run EXCEPT !.raised = TRUE]}
    ELSE {[run EXCEPT !.token_idx = t] : t \in Multinomial(run.probs)}

GreedyDecoding_sample(self, probs) ==
    {[NoRun EXCEPT !.zeroed_k = probs, !.probs_k = probs, !.zeroed_p = probs,
                   !.probs = probs, !.token_idx = t] : t \in Argmax(probs)}

RandomDecoding_sample(self, probs) ==
    Draw([NoRun EXCEPT !.zeroed_k = probs, !.probs_k = probs, !.zeroed_p = probs,
                       !.probs = probs])

TopKDecoding_sample(self, probs) ==
    UNION {
        LET zeroed == ZeroNonTopK(probs, s, self.k)
            normed == Renormalize(zeroed)
        IN  Draw([NoRun EXCEPT !.sorted_k = s, !.zeroed_k = zeroed, !.probs_k = normed,
                               !.zeroed_p = normed, !.probs = normed])
        : s \in SortedIndices(probs)}

TopPDecoding_sample(self, probs) ==
    UNION {
        LET zeroed == ZeroNonTopP(probs, s, self.pn)
            normed == Renormalize(zeroed)
        IN  Draw([NoRun EXCEPT !.zeroed_k = probs, !.probs_k = probs,
                               !.sorted_p = s, !.zeroed_p = zeroed, !.probs = normed])
        : s \in SortedIndices(probs)}

\* mutant of TopKTopPDecoding_sample: no division between the two stages
TopKTopPDecoding_sample_NoRenorm(self, probs) ==
    UNION {
        LET zeroed_k == ZeroNonTopK(probs, s1, self.k)
        IN  UNION {
                LET zeroed_p == ZeroNonTopP(zeroed_k, s2, self.pn)
                    normed == Renormalize(zeroed_p)
                IN  Draw([NoRun EXCEPT !.sorted_k = s1, !.zeroed_k = zeroed_k,
                                       !.probs_k = zeroed_k, !.sorted_p = s2,
                                       !.zeroed_p = zeroed_p, !.probs = normed])
                : s2 \in SortedIndices(zeroed_k)}
        : s1 \in SortedIndices(probs)}

TopKTopPDecoding_sample(self, probs) ==
    UNION {
        LET zeroed_k == ZeroNonTopK(probs, s1, self.k)
            probs_k == Renormalize(zeroed_k)
        IN  UNION {
                LET zeroed_p == ZeroNonTopP(probs_k, s2, self.pn)
                    normed == Renormalize(zeroed_p)
                IN  Draw([NoRun EXCEPT !.sorted_k = s1, !.zeroed_k = zeroed_k,
                                       !.probs_k = probs_k, !.sorted_p = s2,
                                       !.zeroed_p = zeroed_p, !.probs = normed])
                : s2 \in SortedIndices(probs_k)}
        : s1 \in SortedIndices(probs)}

\* self.decoding_strategy.sample(probs): dispatch on the strategy's class
Sample(self, probs) ==
    CASE self.kind = "Greedy" -> GreedyDecoding_sample(self, probs)
      [] self.kind = "Random" -> RandomDecoding_sample(self, probs)
      [] self.kind = "TopK" -> TopKDecoding_sample(self, probs)
      [] self.kind = "TopP" -> TopPDecoding_sample(self, probs)
      [] self.kind = "TopKTopP" -> TopKTopPDecoding_sample(self, probs)

\* ------------------------------------------------------------- tokenizer
\* The tokenizer is a collaborator: one character per token, the character
\* of token t being the digit string of t.
CharOf(t) == ToString(t)

Chars == {CharOf(t) : t \in Tokens}

\* self.tokenizer(prompt, return_tensors='pt')['input_ids']
Encode(text) == [i \in 1 .. Len(text) |-> CHOOSE t \in Tokens : CharOf(t) = text[i]]

\* self.tokenizer.decode(ids)
Decode(ids) == [i \in 1 .. Len(ids) |-> CharOf(ids[i])]

Prompts == UNION {[1 .. n -> Chars] : n \in 1 .. MaxPromptLen}

\* ------------------------------------------------------------------ state
VARIABLES
    decoding_strategy,              \* self.decoding_strategy
    max_input_length,               \* self.max_input_length
    pc,                             \* position of the generate call
    prompt, max_steps, temperature, \* arguments of the generate call
    x,                              \* the local x: the whole record, or its truncation
    view,                           \* the x of the last model(x) call
    running_out,                    \* list of tensors: the prompt, then one per token
    step_count,
    max_length_warning_triggered,
    warnings,                       \* warnings.warn calls of this generate call
    invocations,                    \* model(x) calls of this generate call
    clamped,                        \* iterations of this call that truncated x
    sampled,                        \* token_idx returned by sample, in order
    output,                         \* the string generate returned
    arg_probs,                      \* the tensor handed to a strategy's sample
    sample_run,                     \* the values of that sample call
    sample_pc                       \* "ready", "done"

gen_vars == <<max_input_length, pc, prompt, max_steps, temperature, x, view, running_out,
              step_count, max_length_warning_triggered, warnings, invocations,
              clamped, sampled, output>>

sample_vars == <<arg_probs, sample_run, sample_pc>>

vars == <<decoding_strategy, gen_vars, sample_vars>>

\* --------------------------------------------------- strategies, on their own
SampleInit ==
    /\ decoding_strategy \in Strategies
    /\ arg_probs \in Dists
    /\ sample_run = NoRun
    /\ sample_pc = "ready"
    /\ max_input_length = 1
    /\ pc = "idle"
    /\ prompt = <<>>
    /\ max_steps = 0
    /\ temperature = 1
    /\ x = <<>>
    /\ view = <<>>
    /\ running_out = <<>>
    /\ step_count = 0
    /\ max_length_warning_triggered = FALSE
    /\ warnings = 0
    /\ invocations = 0
    /\ clamped = 0
    /\ sampled = <<>>
    /\ output = <<>>

Call(runs) ==
    /\ sample_pc = "ready"
    /\ \E r \in runs : sample_run' = r
    /\ sample_pc' = "done"
    /\ UNCHANGED <<decoding_strategy, arg_probs, gen_vars>>

GreedySample ==
    /\ decoding_strategy.kind = "Greedy"
    /\ Call(GreedyDecoding_sample(decoding_strategy, arg_probs))

RandomSample ==
    /\ decoding_strategy.kind = "Random"
    /\ Call(RandomDecoding_sample(decoding_strategy, arg_probs))

TopKSample ==
    /\ decoding_strategy.kind = "TopK"
    /\ Call(TopKDecoding_sample(decoding_strategy, arg_probs))

TopPSample ==
    /\ decoding_strategy.kind = "TopP"
    /\ Call(TopPDecoding_sample(decoding_strategy, arg_probs))

TopKTopPSample ==
    /\ decoding_strategy.kind = "TopKTopP"
    /\ Call(TopKTopPDecoding_sample(decoding_strategy, arg_probs))

SampleNext ==
    \/ GreedySample
    \/ RandomSample
    \/ TopKSample
    \/ TopPSample
    \/ TopKTopPSample

SpecSample == SampleInit /\ [][SampleNext]_vars

\* ------------------------------------------------- TextGenerator.generate
\* the strategies a TextGenerator is built with here; k = 0 and p = 0 are
\* accepted by the constructors like any other value
GenStrategies ==
    {GreedyDecoding, RandomDecoding, TopKDecoding(0), TopKDecoding(2),
     TopPDecoding(PDen - 1), TopKTopPDecoding(2, 0)}

MaxStepsValues == -1 .. MaxSteps

\* the temperature argument: zero, and one value for every non-zero temperature
\* (the model being any model, each of them can give every tensor of Dists)
Temperatures == {0, 1}

\* out = model(x); logits = out.logits[0, -1]; F.softmax(logits / temperature):
\* the model is a collaborator, so any distribution can come out; dividing by
\* a zero temperature gives infinities and NaN, whose softmax is all NaN
ModelProbs(temp) == IF temp = 0 THEN {NaNTensor} ELSE Dists

\* what self.decoding_strategy.sample(probs) can do on the tensors a forward
\* pass can give: raise, or return token_idx
OutcomesOf(strategy, temp) ==
    {[raised |-> r.raised, token_idx |-> r.token_idx] :
        r \in UNION {Sample(strategy, pr) : pr \in ModelProbs(temp)}}

\* the table of OutcomesOf, for the strategies and temperatures in use
SampleOutcomes ==
    {e : e \in UNION {
        {[strategy |-> s, temperature |-> temp, outcome |-> o] : o \in OutcomesOf(s, temp)}
        : s \in GenStrategies, temp \in Temperatures}}

\* token_idx = self.decoding_strategy.sample(probs) in the current call
Sampled ==
    {e.outcome : e \in {e \in SampleOutcomes : /\ e.strategy = decoding_strategy
                                               /\ e.temperature = temperature}}

RECURSIVE TorchCat(_)
\* torch.cat(running_out, dim=1)
TorchCat(tensors) ==
    IF tensors = <<>> THEN <<>> ELSE Head(tensors) \o TorchCat(Tail(tensors))

Init ==
    /\ decoding_strategy \in GenStrategies
    /\ max_input_length \in 1 .. MaxInputLength
    /\ pc = "idle"
    /\ prompt = <<>>
    /\ max_steps = 0
    /\ temperature = 1
    /\ x = <<>>
    /\ view = <<>>
    /\ running_out = <<>>
    /\ step_count = 0
    /\ max_length_warning_triggered = FALSE
    /\ warnings = 0
    /\ invocations = 0
    /\ clamped = 0
    /\ sampled = <<>>
    /\ output = <<>>
    /\ arg_probs = NaNTensor
    /\ sample_run = NoRun
    /\ sample_pc = "ready"

\* entry of generate, up to the first test of the loop condition
Generate ==
    /\ pc = "idle"
    /\ \E text \in Prompts, n \in MaxStepsValues, temp \in Temperatures :
        /\ prompt' = text
        /\ max_steps' = n
        /\ temperature' = temp
        /\ x' = Encode(text)
        /\ running_out' = <<Encode(text)>>
    /\ step_count' = 0
    /\ max_length_warning_triggered' = FALSE
    /\ view' = <<>>
    /\ warnings' = 0
    /\ invocations' = 0
    /\ clamped' = 0
    /\ sampled' = <<>>
    /\ output' = <<>>
    /\ pc' = "loop"
    /\ UNCHANGED <<decoding_strategy, max_input_length, sample_vars>>

\* mutant of LoopCondition: one iteration too many
LoopCondition_OffByOne == step_count <= max_steps

\* while step_count < max_steps
LoopCondition == step_count < max_steps

\* if x.size(1) > self.max_input_length
Truncates == Len(x) > max_input_length

\* mutant of WarnNow: the flag is not consulted
WarnNow_EveryTime == Truncates

\* if not max_length_warning_triggered: warnings.warn(...)
WarnNow == Truncates /\ ~max_length_warning_triggered

\* mutant of TruncatedX: the oldest tokens are kept
TruncatedX_Oldest == IF Truncates THEN SubSeq(x, 1, max_input_length) ELSE x

\* x = x[:, x.size(1)-self.max_input_length:]
TruncatedX ==
    IF Truncates THEN SubSeq(x, Len(x) - max_input_length + 1, Len(x)) ELSE x

\* one iteration up to the return of sample: the truncation and its warning,
\* the forward pass on x and the call of the strategy
Forward ==
    /\ pc = "loop"
    /\ LoopCondition
    /\ warnings' = IF WarnNow THEN warnings + 1 ELSE warnings
    /\ max_length_warning_triggered' = (max_length_warning_triggered \/ Truncates)
    /\ clamped' = IF Truncates THEN clamped + 1 ELSE clamped
    /\ view' = TruncatedX
    /\ invocations' = invocations + 1
    /\ UNCHANGED <<decoding_strategy, max_input_length, prompt, max_steps, temperature,
                   output, sample_vars>>

\* mutant of StepAppend: step_count is not incremented
StepAppend_NoCount ==
    /\ Forward
    /\ \E o \in Sampled :
        /\ ~o.raised
        /\ o.token_idx # eos_idx
        /\ sampled' = Append(sampled, o.token_idx)
        /\ running_out' = Append(running_out, <<o.token_idx>>)
        /\ x' = TorchCat(running_out')
    /\ pc' = "loop"
    /\ UNCHANGED step_count

\* mutant of StepAppend: the record is rebuilt from the truncated x
StepAppend_TruncatesRecord ==
    /\ Forward
    /\ \E o \in Sampled :
        /\ ~o.raised
        /\ o.token_idx # eos_idx
        /\ sampled' = Append(sampled, o.token_idx)
        /\ running_out' = <<TruncatedX, <<o.token_idx>>>>
        /\ x' = TorchCat(running_out')
    /\ step_count' = step_count + 1
    /\ pc' = "loop"

\* an iteration whose token is not the end of sentence token
StepAppend ==
    /\ Forward
    /\ \E o \in Sampled :
        /\ ~o.raised
        /\ o.token_idx # eos_idx
        /\ sampled' = Append(sampled, o.token_idx)
        /\ running_out' = Append(running_out, <<o.token_idx>>)
        /\ x' = TorchCat(running_out')
    /\ step_count' = step_count + 1
    /\ pc' = "loop"

\* mutant of StepBreak: the end of sentence token is appended before the break
StepBreak_AppendsEos ==
    /\ Forward
    /\ \E o \in Sampled :
        /\ ~o.raised
        /\ o.token_idx = eos_idx
        /\ sampled' = Append(sampled, o.token_idx)
        /\ running_out' = Append(running_out, <<o.token_idx>>)
    /\ x' = TruncatedX
    /\ pc' = "break"
    /\ UNCHANGED step_count

\* an iteration whose token is the end of sentence token: break
StepBreak ==
    /\ Forward
    /\ \E o \in Sampled :
        /\ ~o.raised
        /\ o.token_idx = eos_idx
        /\ sampled' = Append(sampled, o.token_idx)
    /\ x' = TruncatedX
    /\ pc' = "break"
    /\ UNCHANGED <<running_out, step_count>>

\* an iteration in which multinomial raises: the exception leaves generate
StepRaise ==
    /\ Forward
    /\ \E o \in Sampled : o.raised
    /\ x' = TruncatedX
    /\ pc' = "raised"
    /\ UNCHANGED <<running_out, step_count, sampled>>

\* the loop is left (condition false, or break): decode the record and return
Return ==
    /\ pc = "break" \/ (pc = "loop" /\ ~LoopCondition)
    /\ output' = Decode(TorchCat(running_out))
    /\ pc' = "returned"
    /\ UNCHANGED <<decoding_strategy, max_input_length, prompt, max_steps, temperature,
                   x, view, running_out, step_count, max_length_warning_triggered,
                   warnings, invocations, clamped, sampled, sample_vars>>

\* the call is over (returned, or left by the exception) and its frame is gone;
\* the next call can begin.  The flag is left as the call left it, so that a
\* generate that did not reset it would start from a stale value.
CallEnds ==
    /\ pc \in {"returned", "raised"}
    /\ pc' = "idle"
    /\ prompt' = <<>>
    /\ max_steps' = 0
    /\ temperature' = 1
    /\ x' = <<>>
    /\ view' = <<>>
    /\ running_out' = <<>>
    /\ step_count' = 0
    /\ warnings' = 0
    /\ invocations' = 0
    /\ clamped' = 0
    /\ sampled' = <<>>
    /\ output' = <<>>
    /\ UNCHANGED <<decoding_strategy, max_input_length, max_length_warning_triggered,
                   sample_vars>>

Next ==
    \/ Generate
    \/ StepAppend
    \/ StepBreak
    \/ StepRaise
    \/ Return
    \/ CallEnds

Spec == Init /\ [][Next]_vars

\* one pass through the body of the while loop, however it ends
Iteration == StepAppend \/ StepBreak \/ StepRaise

\* generate is synchronous, single-threaded code: once it is called, the next
\* iteration and the return are taken as soon as they are possible (the model
\* and the strategy return).  Nothing obliges the caller to call again.
SpecFair == Init /\ [][Next]_vars /\ WF_vars(Iteration) /\ WF_vars(Return)

\* ------------------------------------------------- claims on the strategies
SampleDone(kind) == sample_pc = "done" /\ decoding_strategy.kind = kind

ValidK(k) == k >= 1

ValidP(pn) == pn >= 1 /\ pn <= PDen

SumsToOne(t) == t.d > 0 /\ TensorSum(t) = t.d

\* the entries at the first n positions of a sorted order
FirstOf(sorted_indices, n) == {sorted_indices[j] : j \in 1 .. n}

\* C5: for TopPDecoding(p), p in (0,1], the entries left non-zero are the
\* smallest prefix of the descending order whose cumulative probability
\* exceeds p (the entry at which the running sum first exceeds p is kept),
\* and the highest-probability entry is always retained.
C5_TopPSmallestPrefixExceedingP ==
    (SampleDone("TopP") /\ ValidP(decoding_strategy.pn)) =>
        LET cum == cumulative_probs(arg_probs, sample_run.sorted_p)
            exceeding == {j \in 1 .. V : cum[j] * PDen > decoding_strategy.pn * arg_probs.d}
            first == IF exceeding = {} THEN V
                     ELSE CHOOSE j \in exceeding : \A i \in exceeding : j <= i
        IN  /\ Support(sample_run.zeroed_p) = FirstOf(sample_run.sorted_p, first) \cap Support(arg_probs)
            /\ sample_run.sorted_p[1] \in Support(sample_run.zeroed_p)

\* C6: for TopKDecoding(k), 1 <= k < V, at most k entries are non-zero after
\* the truncation (exactly k when the k largest are all positive), they are
\* among the first k of the descending order, and every token sample returns
\* is one of the original top k.
C6_TopKCardinality ==
    (SampleDone("TopK") /\ ValidK(decoding_strategy.k) /\ decoding_strategy.k < V) =>
        LET k == decoding_strategy.k
            topk == FirstOf(sample_run.sorted_k, k)
        IN  /\ Cardinality(Support(sample_run.zeroed_k)) <= k
            /\ (\A i \in topk : arg_probs.w[i] > 0) => Cardinality(Support(sample_run.zeroed_k)) = k
            /\ Support(sample_run.zeroed_k) = topk \cap Support(arg_probs)
            /\ Support(sample_run.probs) = Support(sample_run.zeroed_k)
            /\ ~sample_run.raised
            /\ sample_run.token_idx \in topk
            /\ Cardinality({i \in Tokens : arg_probs.w[i] > arg_probs.w[sample_run.token_idx]}) < k

C6_Witness ==
    /\ SampleDone("TopK")
    /\ decoding_strategy.k = 2
    /\ Cardinality(Support(arg_probs)) = V
    /\ Cardinality(Support(sample_run.zeroed_k)) = 2
    /\ sample_run.token_idx = sample_run.sorted_k[2]

\* the candidate sets (non-zero entries before the final draw) a strategy can
\* arrive at on a tensor
CandidateSets(runs) == {Support(r.probs) : r \in runs}

\* TopKDecoding(k)'s truncation and renormalization, then TopPDecoding(p)'s,
\* applied to the renormalized output of the former
ComposedCandidateSets(t, k, pn) ==
    UNION {CandidateSets(TopPDecoding_sample(TopPDecoding(pn), rk.probs))
           : rk \in TopKDecoding_sample(TopKDecoding(k), t)}

TopKTopPCandidateSets(t, k, pn) ==
    CandidateSets(TopKTopPDecoding_sample(TopKTopPDecoding(k, pn), t))

TopPCandidateSets(t, pn) == CandidateSets(TopPDecoding_sample(TopPDecoding(pn), t))

\* the candidate sets of the composition, for every tensor, k >= 1 and p in
\* (0,1]: the tuples <<tensor, k, pn, candidate set>>
ComposedTable ==
    {e : e \in UNION {
        {<<t, k, pn, c>> : c \in ComposedCandidateSets(t, k, pn)}
        : t \in Dists, k \in 1 .. MaxK, pn \in 1 .. PDen}}

\* the same for TopKTopPDecoding(k, p).sample
TopKTopPTable ==
    {e : e \in UNION {
        {<<t, k, pn, c>> : c \in TopKTopPCandidateSets(t, k, pn)}
        : t \in Dists, k \in 1 .. MaxK, pn \in 1 .. PDen}}

\* every candidate set of the composition is one TopKTopPDecoding can reach
ComposedSetsAreReached == ComposedTable \subseteq TopKTopPTable

\* some tensor, k >= 1 and p in (0,1] on which the candidate sets of
\* TopKTopPDecoding(k, p) are not those of TopPDecoding(p)
TopKTopPDiffersFromTopP ==
    \E t \in Dists, k \in 1 .. MaxK, pn \in 1 .. PDen :
        TopKTopPCandidateSets(t, k, pn) # TopPCandidateSets(t, pn)

\* C7: the candidate set of TopKTopPDecoding(k, p).sample is the one obtained
\* by TopKDecoding(k)'s truncate-and-renormalize step followed by
\* TopPDecoding(p)'s on its output; and for some tensor, k and p it differs
\* from the candidate set of TopPDecoding(p) alone.
C7_TopKTopPIsComposition ==
    (/\ SampleDone("TopKTopP")
     /\ ValidK(decoding_strategy.k)
     /\ ValidP(decoding_strategy.pn)) =>
        /\ <<arg_probs, decoding_strategy.k, decoding_strategy.pn,
             Support(sample_run.probs)>> \in ComposedTable
        /\ ComposedSetsAreReached
        /\ TopKTopPDiffersFromTopP

C7_Witness ==
    /\ SampleDone("TopKTopP")
    /\ ValidK(decoding_strategy.k)
    /\ ValidP(decoding_strategy.pn)
    /\ decoding_strategy.pn < PDen
    /\ Cardinality(Support(sample_run.probs)) = 1
    /\ Support(sample_run.probs) \notin TopPCandidateSets(arg_probs, decoding_strategy.pn)

\* C10: for TopKDecoding (k >= 1), TopPDecoding (p in (0,1]) and
\* TopKTopPDecoding, after every truncation the surviving mass is positive
\* and the tensor handed to the draw sums to 1; in TopKTopPDecoding after the
\* top-k stage and again after the top-p stage.
C10_SurvivingMassNormalized ==
    /\ (SampleDone("TopK") /\ ValidK(decoding_strategy.k)) =>
            /\ TensorSum(sample_run.zeroed_k) > 0
            /\ SumsToOne(sample_run.probs)
            /\ ~sample_run.raised
    /\ (SampleDone("TopP") /\ ValidP(decoding_strategy.pn)) =>
            /\ TensorSum(sample_run.zeroed_p) > 0
            /\ SumsToOne(sample_run.probs)
            /\ ~sample_run.raised
    /\ (/\ SampleDone("TopKTopP")
        /\ ValidK(decoding_strategy.k)
        /\ ValidP(decoding_strategy.pn)) =>
            /\ TensorSum(sample_run.zeroed_k) > 0
            /\ SumsToOne(sample_run.probs_k)
            /\ TensorSum(sample_run.zeroed_p) > 0
            /\ SumsToOne(sample_run.probs)
            /\ ~sample_run.raised

C10_Witness ==
    /\ SampleDone("TopKTopP")
    /\ decoding_strategy.k = 2
    /\ decoding_strategy.pn = PDen - 1
    /\ Cardinality(Support(arg_probs)) = V
    /\ TensorSum(sample_run.zeroed_k) < arg_probs.d
    /\ TensorSum(sample_run.zeroed_p) < sample_run.probs_k.d
    /\ SumsToOne(sample_run.probs)

\* ------------------------------------------------------ claims on generate
InCall == pc \in {"loop", "break", "raised", "returned"}

\* the encoded prompt and the record kept by the call, as flat sequences
EncodedPrompt == Encode(prompt)

Record == TorchCat(running_out)

Last(seq) == seq[Len(seq)]

Front(seq) == SubSeq(seq, 1, Len(seq) - 1)

EosSampled == sampled # <<>> /\ Last(sampled) = eos_idx

NoEosSampled == \A i \in 1 .. Len(sampled) : sampled[i] # eos_idx

\* calls of the strategy's sample made by the current call of generate
StrategyCalls == Len(sampled) + (IF pc = "raised" THEN 1 ELSE 0)

\* the last n elements of a sequence
Suffix(seq, n) == SubSeq(seq, Len(seq) - n + 1, Len(seq))

Min(a, b) == IF a < b THEN a ELSE b

\* C1: when the strategy returns the end-of-sequence index the loop stops at
\* that step without appending it: the record is the encoded prompt followed
\* by the non-EOS tokens sampled before it and no further model invocation
\* happens; if the first sampled token is EOS there is exactly one model
\* invocation and the output is the decoding of the prompt alone.
C1_EosStopsWithoutAppending ==
    InCall =>
        /\ \A i \in 1 .. (Len(sampled) - 1) : sampled[i] # eos_idx
        /\ EosSampled =>
            /\ pc \in {"break", "returned"}
            /\ Record = EncodedPrompt \o Front(sampled)
            /\ invocations = Len(sampled)
            /\ pc = "returned" => output = Decode(EncodedPrompt \o Front(sampled))
        /\ (pc = "returned" /\ sampled = <<eos_idx>>) =>
            /\ invocations = 1
            /\ output = Decode(EncodedPrompt)

C1_Witness ==
    /\ pc = "returned"
    /\ Len(sampled) = 2
    /\ EosSampled
    /\ invocations = 2
    /\ Len(Record) = Len(EncodedPrompt) + 1

\* C2: for max_steps = n >= 0, if the strategy never returns the
\* end-of-sequence index, generate performs exactly n model invocations and
\* returns a record exactly n tokens longer than the encoded prompt, one token
\* appended per step in sampling order, whether or not the clamp is triggered.
C2_StepBudget ==
    (InCall /\ max_steps >= 0 /\ NoEosSampled) =>
        /\ Record = EncodedPrompt \o sampled
        /\ step_count = Len(sampled)
        /\ pc = "returned" =>
            /\ invocations = max_steps
            /\ Len(Record) = Len(EncodedPrompt) + max_steps
            /\ output = Decode(EncodedPrompt \o sampled)

C2_Witness ==
    /\ pc = "returned"
    /\ max_steps = MaxSteps
    /\ NoEosSampled
    /\ invocations = MaxSteps
    /\ clamped >= 2
    /\ Len(Record) = Len(EncodedPrompt) + MaxSteps

\* C3: within one generate call the truncation warning is emitted at most
\* once, and exactly once if the clamp is triggered on one or more steps,
\* namely at the first such step; the flag is false at the start of every call.
C3_WarningOnce ==
    InCall =>
        /\ warnings <= 1
        /\ (warnings = 1) <=> (clamped >= 1)
        /\ max_length_warning_triggered <=> (clamped >= 1)
        /\ invocations = 0 => ~max_length_warning_triggered

C3_Witness ==
    /\ pc = "returned"
    /\ Len(EncodedPrompt) > max_input_length
    /\ clamped >= 3
    /\ warnings = 1

\* C4: at every model invocation the view is the suffix of the record of its
\* most recent min(len(record), max_input_length) tokens, and the record is
\* never shortened by the clamp: it is the encoded prompt followed by all
\* appended tokens, and this whole record is what is decoded at return.
C4_ViewIsSuffixRecordIsWhole ==
    InCall =>
        LET appended == SelectSeq(sampled, LAMBDA t : t # eos_idx)
            seen == EncodedPrompt \o SubSeq(sampled, 1, invocations - 1)
        IN  /\ invocations > 0 =>
                /\ view = Suffix(seen, Min(Len(seen), max_input_length))
                /\ Len(view) <= max_input_length
            /\ Record = EncodedPrompt \o appended
            /\ Len(Record) = Len(EncodedPrompt) + step_count
            /\ pc = "returned" => output = Decode(EncodedPrompt \o appended)

C4_Witness ==
    /\ pc = "returned"
    /\ clamped >= 2
    /\ Len(view) = max_input_length
    /\ Len(Record) >= max_input_length + 2
    /\ Len(output) = Len(Record)

InvalidConfiguration ==
    \/ decoding_strategy.kind \in {"TopK", "TopKTopP"} /\ ~ValidK(decoding_strategy.k)
    \/ decoding_strategy.kind \in {"TopP", "TopKTopP"} /\ ~ValidP(decoding_strategy.pn)
    \/ InCall /\ temperature <= 0
    \/ InCall /\ max_steps < 0

\* C8: an invalid configuration (k < 1, p outside (0,1], temperature <= 0,
\* negative max_steps) is reported eagerly, before any model invocation or
\* sampling step; it is never deferred into the loop (no exception from
\* inside an iteration) and never silently accepted (no normal return).
C8_EagerConfigurationError ==
    InvalidConfiguration =>
        /\ invocations = 0
        /\ StrategyCalls = 0
        /\ pc # "raised"
        /\ pc # "returned"

\* C9: generate(prompt, max_steps=0) performs no model invocation and no
\* strategy call, emits no warning even when the prompt is longer than
\* max_input_length, and returns decode(encode(prompt)).
C9_ZeroStepsRoundTrip ==
    (pc = "returned" /\ max_steps = 0) =>
        /\ invocations = 0
        /\ StrategyCalls = 0
        /\ warnings = 0
        /\ output = Decode(Encode(prompt))

C9_Witness ==
    /\ pc = "returned"
    /\ max_steps = 0
    /\ Len(Encode(prompt)) > max_input_length
    /\ output = Decode(Encode(prompt))

\* tokens appended to the record by the current call
Appended == Len(Record) - Len(EncodedPrompt)

\* the loop of a call with max_steps >= 0 is running
Looping == pc = "loop" /\ max_steps >= 0

\* the call is over: generate returned, or an exception of the strategy left it
CallOver == pc \in {"returned", "raised"}

EndedByEos == EosSampled

EndedByBudget == NoEosSampled /\ Appended = max_steps

\* the step counter is the number of appended tokens, and within max_steps
C11_StepCounter ==
    /\ step_count = Appended
    /\ max_steps >= 0 => step_count <= max_steps

\* a returned call ended for exactly one of the two causes
C11_OneCause ==
    (pc = "returned" /\ max_steps >= 0) =>
        /\ EndedByEos \/ EndedByBudget
        /\ ~(EndedByEos /\ EndedByBudget)

\* C11: every generate call with max_steps >= 0 terminates (the model and the
\* strategy returning; an exception of the strategy also ends the call), and
\* when it returns exactly one of the two causes holds: the last sampled token
\* is the end-of-sequence index, or exactly max_steps tokens were appended and
\* no end-of-sequence index was sampled; in every reachable state the step
\* counter equals the number of appended tokens and does not exceed max_steps.
C11_TerminatesForOneCause ==
    /\ [](C11_StepCounter /\ C11_OneCause)
    /\ Looping ~> CallOver

\* a call that used its whole budget but for one step and ended by EOS there
C11_Witness ==
    /\ pc = "returned"
    /\ max_steps = MaxSteps
    /\ EndedByEos
    /\ step_count = MaxSteps - 1
    /\ Appended = MaxSteps - 1

\* what a caller can observe of a call of sample: the distribution handed to
\* the final draw and what the draw did
Observable(runs) ==
    {[probs |-> r.probs, raised |-> r.raised, token_idx |-> r.token_idx] : r \in runs}

\* C12: for TopKDecoding(k) with k >= V the truncation zeroes no entry and the
\* distribution handed to the final draw equals the input distribution, so the
\* tokens that can be returned, and their weights, are those of RandomDecoding
\* on the same input.
C12_TopKAllIsRandom ==
    (SampleDone("TopK") /\ decoding_strategy.k >= V) =>
        /\ sample_run.zeroed_k = arg_probs
        /\ \A i \in Tokens :
            sample_run.probs.w[i] * arg_probs.d = arg_probs.w[i] * sample_run.probs.d
        /\ sample_run.raised = MultinomialRaises(arg_probs)
        /\ ~sample_run.raised => sample_run.token_idx \in Multinomial(arg_probs)
        /\ Observable(TopKDecoding_sample(decoding_strategy, arg_probs))
                = Observable(RandomDecoding_sample(RandomDecoding, arg_probs))

\* k above V, and the least likely token of a full-support tensor is returned
C12_Witness ==
    /\ SampleDone("TopK")
    /\ decoding_strategy.k > V
    /\ Cardinality(Support(arg_probs)) = V
    /\ sample_run.token_idx = sample_run.sorted_k[V]
    /\ arg_probs.w[sample_run.token_idx] < arg_probs.w[sample_run.sorted_k[1]]

====
